---- MODULE Spec2Model ----
(***************************************************************************)
(* sonicks: a SOCKS5 (socks5h) connector.  One connection attempt of       *)
(* Socks5hProxy::connect is a chain of futures over one TcpStream; the     *)
(* model runs that chain one closure / one channel event at a time.        *)
(* Bytes are integers in 0..255, strings of the destination are sequences  *)
(* of UTF-8 bytes, error messages are TLA+ strings.                        *)
(***************************************************************************)
EXTENDS Integers, Sequences, FiniteSets, TLC

(***************************************************************************)
(* Bounds of the model.                                                    *)
(***************************************************************************)
\* Bytes the proxy may have sent that the attempt has not consumed yet.
MaxInFlight == 1

(***************************************************************************)
(* Number formatting, as format!("{}") and format!("{:X}") / "{:x}" do it. *)
(***************************************************************************)
DecDigits == <<"0", "1", "2", "3", "4", "5", "6", "7", "8", "9">>
HexUpperDigits == DecDigits \o <<"A", "B", "C", "D", "E", "F">>
HexLowerDigits == DecDigits \o <<"a", "b", "c", "d", "e", "f">>

RECURSIVE FmtDec(_)
\* format!("{}", n) of an unsigned integer: decimal, no padding
FmtDec(n) == IF n < 10 THEN DecDigits[n + 1]
             ELSE FmtDec(n \div 10) \o DecDigits[(n % 10) + 1]

RECURSIVE FmtUpperHex(_)
\* format!("{:X}", n): upper-case hexadecimal, no prefix, no padding
FmtUpperHex(n) == IF n < 16 THEN HexUpperDigits[n + 1]
                  ELSE FmtUpperHex(n \div 16) \o HexUpperDigits[(n % 16) + 1]

RECURSIVE FmtLowerHex(_)
\* format!("{:x}", n): lower-case hexadecimal, no prefix, no padding
FmtLowerHex(n) == IF n < 16 THEN HexLowerDigits[n + 1]
                  ELSE FmtLowerHex(n \div 16) \o HexLowerDigits[(n % 16) + 1]

(***************************************************************************)
(* method.rs: Socks5Method and its conversions.                            *)
(***************************************************************************)
NoAuthRequired == [tag |-> "NoAuthRequired"]
Gssapi == [tag |-> "Gssapi"]
UsernamePassword == [tag |-> "UsernamePassword"]
IanaAssigned(code) == [tag |-> "IanaAssigned", code |-> code]
Private(code) == [tag |-> "Private", code |-> code]
NoAcceptable == [tag |-> "NoAcceptable"]

\* impl Into<u8> for Socks5Method
Socks5Method_into(m) ==
    CASE m.tag = "NoAuthRequired" -> 0
      [] m.tag = "Gssapi" -> 1
      [] m.tag = "UsernamePassword" -> 2
      [] m.tag = "IanaAssigned" -> m.code
      [] m.tag = "Private" -> m.code
      [] m.tag = "NoAcceptable" -> 255

\* A conversion that folds the IANA range into the private one.
Socks5Method_from_folded(byte) ==
    CASE byte = 0 -> NoAuthRequired
      [] byte = 1 -> Gssapi
      [] byte = 2 -> UsernamePassword
      [] byte \in 3..254 -> Private(byte)
      [] byte = 255 -> NoAcceptable

\* impl From<u8> for Socks5Method
Socks5Method_from(byte) ==
    CASE byte = 0 -> NoAuthRequired
      [] byte = 1 -> Gssapi
      [] byte = 2 -> UsernamePassword
      [] byte \in 3..127 -> IanaAssigned(byte)
      [] byte \in 128..254 -> Private(byte)
      [] byte = 255 -> NoAcceptable

\* impl fmt::Display for Socks5Method
Socks5Method_fmt(m) ==
    CASE m.tag = "NoAuthRequired" -> "NO AUTHENTICATION REQUIRED"
      [] m.tag = "Gssapi" -> "GSSAPI"
      [] m.tag = "UsernamePassword" -> "USERNAME/PASSWORD"
      [] m.tag = "IanaAssigned" -> "IANA ASSIGNED METHOD " \o FmtUpperHex(m.code)
      [] m.tag = "Private" -> "PRIVATE METHOD " \o FmtUpperHex(m.code)
      [] m.tag = "NoAcceptable" -> "NO ACCEPTABLE METHODS"

(***************************************************************************)
(* reply.rs: Socks5Reply and its conversions.                              *)
(***************************************************************************)
ReplyNames == <<"Succeeded", "GeneralFailure", "NotAllowedRuleset",
                "NetworkUnreachable", "HostUnreachable", "ConnectionRefused",
                "TtlExpired", "CommandNotSupported", "AddressTypeNotSupported">>
ReplyTexts == <<"succeeded", "general SOCKS server failure",
                "connection not allowed by ruleset", "network unreachable",
                "host unreachable", "connection refused", "TTL expired",
                "command not supported", "address type not supported">>
Succeeded == [tag |-> "Succeeded"]
Unassigned(code) == [tag |-> "Unassigned", code |-> code]

\* impl From<u8> for Socks5Reply
Socks5Reply_from(byte) ==
    IF byte \in 0..8 THEN [tag |-> ReplyNames[byte + 1]] ELSE Unassigned(byte)

\* impl Into<u8> for Socks5Reply
Socks5Reply_into(r) ==
    IF r.tag = "Unassigned" THEN r.code
    ELSE CHOOSE b \in 0..8 : ReplyNames[b + 1] = r.tag

\* impl fmt::Display for Socks5Reply
Socks5Reply_fmt(r) ==
    IF r.tag = "Unassigned" THEN "Unassigned reply " \o FmtUpperHex(r.code)
    ELSE ReplyTexts[Socks5Reply_into(r) + 1]

(***************************************************************************)
(* error.rs: every constructor builds io::Error::new(Other, message).      *)
(* The model keeps the constructor's name next to the message.             *)
(***************************************************************************)
other(kind, msg) == [kind |-> kind, msg |-> msg]

invalid_host_length(length) ==
    other("InvalidHostLength", "invalid hostname length: " \o FmtDec(length))
invalid_address_type(atyp) ==
    other("InvalidAddressType",
          "server replied with invalid address type: " \o FmtLowerHex(atyp))
unsupported_method(method) ==
    other("UnsupportedMethod",
          "server replied with method type unsupported by client: "
              \o Socks5Method_fmt(method))
unsupported_version(version) ==
    other("UnsupportedVersion",
          "server replied with unsupported socks version: " \o FmtDec(version))
unsupported_scheme(scheme) ==
    other("UnsupportedScheme", "unable to determine port for scheme: " \o scheme)
no_acceptable_methods ==
    other("NoAcceptableMethods",
          "server indicated that none of the provided methods are acceptable")
invalid_reserved(rsv) ==
    other("InvalidReserved", "invalid reserved byte: " \o FmtDec(rsv))
reply_error(reply) == other("ReplyError", Socks5Reply_fmt(reply))

\* An io::Error of the transport itself (connect refused, reset, EOF).
TransportError == other("Io", "transport error")
NoError == other("None", "")

(***************************************************************************)
(* std::net::IpAddr::from_str, as socks.rs:97 uses it: dotted-decimal IPv4 *)
(* first, then colon-hexadecimal IPv6 (with at most one "::").  Strings    *)
(* are sequences of bytes.                                                 *)
(***************************************************************************)
RECURSIVE SplitBy(_, _)
SplitBy(s, sep) ==
    IF \A i \in 1..Len(s) : s[i] # sep THEN <<s>>
    ELSE LET i == CHOOSE k \in 1..Len(s) :
                      s[k] = sep /\ \A j \in 1..(k - 1) : s[j] # sep
         IN <<SubSeq(s, 1, i - 1)>> \o SplitBy(SubSeq(s, i + 1, Len(s)), sep)

DigitVal(c) == IF c \in 48..57 THEN c - 48
               ELSE IF c \in 97..102 THEN c - 87
               ELSE IF c \in 65..70 THEN c - 55
               ELSE 99

RECURSIVE NumVal(_, _)
NumVal(part, base) ==
    IF part = <<>> THEN 0
    ELSE NumVal(SubSeq(part, 1, Len(part) - 1), base) * base
           + DigitVal(part[Len(part)])

IsNumber(part, base, maxDigits) ==
    /\ Len(part) \in 1..maxDigits
    /\ \A j \in 1..Len(part) : DigitVal(part[j]) < base

Ipv4Addr_from_str(s) ==
    LET parts == SplitBy(s, 46)
        ok == /\ Len(parts) = 4
              /\ \A i \in 1..4 : IsNumber(parts[i], 10, 3)
              /\ \A i \in 1..4 : NumVal(parts[i], 10) <= 255
    IN [ok |-> ok,
        octets |-> IF ok THEN [i \in 1..4 |-> NumVal(parts[i], 10)] ELSE <<>>]

\* the IPv6 text starts / ends with "::"
Ipv6Lead(parts) == Len(parts) >= 2 /\ parts[1] = <<>> /\ parts[2] = <<>>
Ipv6Trail(parts) ==
    Len(parts) >= 2 /\ parts[Len(parts)] = <<>> /\ parts[Len(parts) - 1] = <<>>

\* the groups between the colons, the "::" standing as one empty group
Ipv6Core(parts) ==
    SubSeq(parts, IF Ipv6Lead(parts) THEN 2 ELSE 1,
           IF Ipv6Trail(parts) THEN Len(parts) - 1 ELSE Len(parts))

Ipv6Gaps(core) == {i \in 1..Len(core) : core[i] = <<>>}

Ipv6Ok(parts, core, gaps) ==
    /\ parts[1] = <<>> => Ipv6Lead(parts)
    /\ parts[Len(parts)] = <<>> => Ipv6Trail(parts)
    /\ Cardinality(gaps) <= 1
    /\ \A i \in (1..Len(core)) \ gaps : IsNumber(core[i], 16, 4)
    /\ IF gaps = {} THEN Len(core) = 8 ELSE Len(core) - 1 <= 7

\* the i-th of the 8 groups, g being the place of the "::" (or past the end)
Ipv6Group(core, g, i) ==
    IF i < g THEN NumVal(core[i], 16)
    ELSE IF i > 8 - (Len(core) - g) THEN NumVal(core[i - 8 + Len(core)], 16)
    ELSE 0

Ipv6Octets(core, g) ==
    [i \in 1..16 |-> IF i % 2 = 1 THEN Ipv6Group(core, g, (i + 1) \div 2) \div 256
                     ELSE Ipv6Group(core, g, i \div 2) % 256]

Ipv6FromCore(parts, core, gaps) ==
    IF Ipv6Ok(parts, core, gaps)
    THEN [ok |-> TRUE,
          octets |-> Ipv6Octets(core, IF gaps = {} THEN Len(core) + 1
                                      ELSE CHOOSE i \in gaps : TRUE)]
    ELSE [ok |-> FALSE, octets |-> <<>>]

Ipv6FromParts(parts) ==
    Ipv6FromCore(parts, Ipv6Core(parts), Ipv6Gaps(Ipv6Core(parts)))

Ipv6Addr_from_str(s) == Ipv6FromParts(SplitBy(s, 58))

IpAddr_from_str(s) ==
    LET v4 == Ipv4Addr_from_str(s)
        v6 == Ipv6Addr_from_str(s)
    IN IF v4.ok THEN [ok |-> TRUE, family |-> "V4", octets |-> v4.octets]
       ELSE IF v6.ok THEN [ok |-> TRUE, family |-> "V6", octets |-> v6.octets]
       ELSE [ok |-> FALSE, family |-> "", octets |-> <<>>]

(***************************************************************************)
(* u16::to_be().to_bytes() (socks.rs:141-145).  to_be swaps the two bytes  *)
(* on a little-endian target and is the identity on a big-endian one;      *)
(* to_bytes is the value's memory representation in the target's order.    *)
(***************************************************************************)
u16_swap_bytes(x) == (x % 256) * 256 + (x \div 256)
u16_to_be(x, littleEndian) == IF littleEndian THEN u16_swap_bytes(x) ELSE x
u16_to_bytes(x, littleEndian) ==
    IF littleEndian THEN <<x % 256, x \div 256>> ELSE <<x \div 256, x % 256>>

\* The port's bytes with the to_be() conversion left out.
PortBytes_noToBe(port, littleEndian) == u16_to_bytes(port, littleEndian)

PortBytes(port, littleEndian) ==
    u16_to_bytes(u16_to_be(port, littleEndian), littleEndian)

(***************************************************************************)
(* Destinations (hyper's Destination: host, optional port, scheme).        *)
(* A port is <<>> for None and <<p>> for Some(p).                          *)
(***************************************************************************)
HostOfLen(n) == [i \in 1..n |-> 97]
HostV4 == <<49, 48, 46, 48, 46, 48, 46, 49>>         \* "10.0.0.1"
HostV6 == <<58, 58, 49>>                             \* "::1"
HostNotV4 == <<50, 53, 54, 46, 48, 46, 48, 46, 49>>  \* "256.0.0.1"
HostName == <<97, 46, 98>>                           \* "a.b"
Hosts == {HostV4, HostV6, HostNotV4, HostName, <<>>,
          HostOfLen(255), HostOfLen(256)}
Ports == {<<>>, <<8080>>}
Schemes == {"http", "https", "ftp"}
Destinations == [host : Hosts, port : Ports, scheme : Schemes]

\* Byte values the proxy's stream is drawn from.
ByteSample == {0, 1, 2, 3, 4, 5, 255}

\* Byte values of the bound address and port, which no decision reads.
BoundSample == {0}

(***************************************************************************)
(* socks.rs: Socks5hProxy and one attempt of Socks5hProxy::connect.        *)
(***************************************************************************)
\* Socks5hProxy::VER
VER == 5
\* Socks5hProxy::RSV
RSV == 0

VARIABLES
    st,          \* the handshake's state (the names of the design's states)
    io,          \* what the attempt waits for: "connect", "write", "read",
                 \* "run" (a closure is ready to run) or "done"
    dst,         \* the Destination given to connect
    socket,      \* "none", "handshake" (owned by the chain), "caller", "dropped"
    wbuf,        \* buffer of the pending write_all
    wpos,        \* bytes of wbuf already written
    written,     \* every byte written on the channel so far
    need,        \* size of the buffer of the pending read_exact
    got,         \* bytes of that buffer already filled
    nread,       \* bytes read from the channel so far
    avail,       \* bytes sent by the proxy and not yet read
    method_resp, \* buffer of the negotiation response (socks.rs:59)
    version,     \* method_resp[0] as handed on by method_handshake
    method,      \* method_resp[1].into()
    response,    \* buffer of the reply header (socks.rs:154)
    atyp,        \* response[3] as handed on by the header check
    addr,        \* which bound-address read is pending: "", "fixed", "len", "body"
    len,         \* buffer of the domain length byte (socks.rs:189)
    bound,       \* the bound address and port bytes read so far; the code
                 \* drops these buffers unread, the model keeps them as history
    err,         \* the attempt's io::Error, NoError while there is none
    parked,      \* a second attempt of the same proxy, parked while this one
                 \* runs (its whole state), or NoOther
    conv         \* a value under conversion by the code tables, or NoConv

\* the state of one attempt
attempt == <<st, io, dst, socket, wbuf, wpos, written, need, got,
             nread, avail, method_resp, version, method, response, atyp, addr,
             len, bound, err>>

vars == <<attempt, parked, conv>>

\* what no step of a handshake touches
aux == <<parked, conv>>

bufs == <<method_resp, version, method, response, atyp, addr, len>>

NoDestination == [host |-> <<>>, port |-> <<>>, scheme |-> ""]
NoOther == <<>>
NoConv == [fn |-> "none", dir |-> "none", b |-> <<>>, v |-> <<>>, text |-> ""]

\* a fresh attempt: nothing but the proxy address exists yet
Fresh ==

    /\ st = "NotStarted"
    /\ io = "done"
    /\ dst = NoDestination
    /\ socket = "none"
    /\ wbuf = <<>>
    /\ wpos = 0
    /\ written = <<>>
    /\ need = 0
    /\ got = 0
    /\ nread = 0
    /\ avail = 0
    /\ method_resp = <<>>
    /\ version = 0
    /\ method = NoAuthRequired
    /\ response = <<>>
    /\ atyp = 0
    /\ addr = ""
    /\ len = <<>>
    /\ bound = <<>>
    /\ err = NoError

\* Socks5hProxy::new, and one caller of connect
Init ==
    /\ Fresh
    /\ parked = NoOther
    /\ conv = NoConv

\* An Err(e) leaves the chain: every later and_then/map is skipped and the
\* TcpStream the chain owned is dropped, which closes it and discards what
\* the proxy sent and nobody read.
Fail(e) ==
    /\ st' = "Failed"
    /\ io' = "done"
    /\ err' = e
    /\ socket' = IF socket = "handshake" THEN "dropped" ELSE socket
    /\ avail' = 0

\* write_all(socket, buf)
StartWrite(buf) ==
    /\ wbuf' = buf
    /\ wpos' = 0
    /\ io' = "write"

\* read_exact that waits for the channel whatever the size of its buffer.
StartRead_alwaysWaits(n) ==
    /\ need' = n
    /\ got' = 0
    /\ io' = "read"

\* read_exact(socket, [0x00; n]); an empty buffer is full at once
StartRead(n) ==
    /\ need' = n
    /\ got' = 0
    /\ io' = IF n = 0 THEN "run" ELSE "read"

\* one poll of write_all moves k more bytes of the buffer to the channel
WriteBytes(k) ==
    /\ io = "write"
    /\ k \in 1..(Len(wbuf) - wpos)
    /\ written' = written \o SubSeq(wbuf, wpos + 1, wpos + k)
    /\ wpos' = wpos + k

\* one poll of read_exact takes one byte off the channel
ReadByte ==
    /\ io = "read"
    /\ got < need
    /\ avail > 0
    /\ avail' = avail - 1
    /\ nread' = nread + 1
    /\ got' = got + 1

\* connect(&self, dst): TcpStream::connect(&self.addr)
Connect(d) ==
    /\ st = "NotStarted"
    /\ st' = "Connecting"
    /\ io' = "connect"
    /\ dst' = d
    /\ UNCHANGED <<aux, bound, socket, wbuf, wpos, written, need, got, nread,
                   avail, bufs, err>>

\* the connection is up: method_handshake(socket) starts its write_all
ConnectDone ==
    /\ st = "Connecting"
    /\ io = "connect"
    /\ st' = "NegotiatingMethod"
    /\ socket' = "handshake"
    /\ StartWrite(<<VER, 1, Socks5Method_into(NoAuthRequired)>>)
    /\ UNCHANGED <<dst, aux, bound, written, need, got, nread, avail, bufs, err>>

\* method_handshake: write_all of the greeting, then read_exact of 2 bytes
MethodWrite(k) ==
    /\ st = "NegotiatingMethod"
    /\ WriteBytes(k)
    /\ IF wpos' = Len(wbuf)
       THEN StartRead(2)
       ELSE UNCHANGED <<io, need, got>>
    /\ UNCHANGED <<st, dst, aux, bound, socket, wbuf, nread, avail, bufs, err>>

\* method_handshake: the response arrives; when both bytes are in, the last
\* closure hands on (socket, method_resp[0], method_resp[1].into())
MethodRead(b) ==
    /\ st = "NegotiatingMethod"
    /\ ReadByte
    /\ method_resp' = Append(method_resp, b)
    /\ IF got' = need
       THEN /\ version' = method_resp'[1]
            /\ method' = Socks5Method_from(method_resp'[2])
            /\ st' = "EvaluatingMethod"
            /\ io' = "run"
       ELSE UNCHANGED <<version, method, st, io>>
    /\ UNCHANGED <<dst, aux, bound, socket, wbuf, wpos, written, need,
                   response, atyp, addr, len, err>>

\* Result<T, io::Error> of a closure: Ok(val) or Err(e)
Ok(val) == [ok |-> TRUE, val |-> val, err |-> NoError]
Err(e) == [ok |-> FALSE, val |-> <<>>, err |-> e]

\* The arms with the method looked at before the version.
MethodCheck_methodFirst(v, m) ==
    IF m = NoAcceptable THEN Err(no_acceptable_methods)
    ELSE IF v = VER /\ m = NoAuthRequired THEN Ok(<<>>)
    ELSE IF v = VER THEN Err(unsupported_method(m))
    ELSE Err(unsupported_version(v))

\* the closure of socks.rs:81-91: match (version, method), arms in order
MethodCheck(v, m) ==
    IF v = VER /\ m = NoAuthRequired THEN Ok(<<>>)
    ELSE IF v = VER /\ m = NoAcceptable THEN Err(no_acceptable_methods)
    ELSE IF v = VER THEN Err(unsupported_method(m))
    ELSE Err(unsupported_version(v))

EvaluateMethod ==
    /\ st = "EvaluatingMethod"
    /\ io = "run"
    /\ LET r == MethodCheck(version, method)
       IN IF r.ok
          THEN /\ st' = "SendingRequest"
               /\ UNCHANGED <<io, err, socket, avail>>
          ELSE Fail(r.err)
    /\ UNCHANGED <<dst, aux, bound, wbuf, wpos, written, need, got, nread,
                   bufs>>

\* usize -> u8 by try_into (socks.rs:116)
u8_try_from(n) == IF n <= 255 THEN Ok(n) ELSE Err(NoError)

\* The address part without the arm for the empty host.
AddressPart_noZero(host) ==
    LET ip == IpAddr_from_str(host)
        length == u8_try_from(Len(host))
    IN IF ip.ok
       THEN IF ip.family = "V4" THEN Ok(<<1>> \o ip.octets)
            ELSE Ok(<<4>> \o ip.octets)
       ELSE IF ~length.ok
            THEN Err(invalid_host_length(Len(host)))
            ELSE Ok(<<3>> \o <<length.val>> \o host)

\* The address part with the two address-type bytes of the IP arms swapped.
AddressPart_swapped(host) ==
    LET ip == IpAddr_from_str(host)
        length == u8_try_from(Len(host))
    IN IF ip.ok
       THEN IF ip.family = "V4" THEN Ok(<<4>> \o ip.octets)
            ELSE Ok(<<1>> \o ip.octets)
       ELSE IF (length.ok /\ length.val = 0) \/ ~length.ok
            THEN Err(invalid_host_length(Len(host)))
            ELSE Ok(<<3>> \o <<length.val>> \o host)

\* socks.rs:97-128: address type and address body of the request
AddressPart(host) ==
    LET ip == IpAddr_from_str(host)
        length == u8_try_from(Len(host))
    IN IF ip.ok
       THEN IF ip.family = "V4" THEN Ok(<<1>> \o ip.octets)
            ELSE Ok(<<4>> \o ip.octets)
       ELSE IF (length.ok /\ length.val = 0) \/ ~length.ok
            THEN Err(invalid_host_length(Len(host)))
            ELSE Ok(<<3>> \o <<length.val>> \o host)

\* socks.rs:130-145: the port, explicit or by scheme, as two bytes
PortPart(port, scheme, le) ==
    IF port # <<>> THEN Ok(PortBytes(port[1], le))
    ELSE IF scheme = "http" THEN Ok(PortBytes(80, le))
    ELSE IF scheme = "https" THEN Ok(PortBytes(443, le))
    ELSE Err(unsupported_scheme(scheme))

\* The encoder with the port resolved before the address.
EncodeRequest_portFirst(d, le) ==
    LET a == AddressPart(d.host)
        p == PortPart(d.port, d.scheme, le)
    IN IF ~p.ok THEN p
       ELSE IF ~a.ok THEN a
       ELSE Ok(<<VER, 1, RSV>> \o a.val \o p.val)

\* socks.rs:95-147: the request buffer, or the first early return
EncodeRequest(d, le) ==
    LET a == AddressPart(d.host)
        p == PortPart(d.port, d.scheme, le)
    IN IF ~a.ok THEN a
       ELSE IF ~p.ok THEN p
       ELSE Ok(<<VER, 1, RSV>> \o a.val \o p.val)

\* The closure with the fixed head of the request written before the address
\* is looked at.
SendRequest_headFirst(le) ==
    /\ st = "SendingRequest"
    /\ io = "run"
    /\ LET r == EncodeRequest(dst, le)
       IN IF r.ok
          THEN /\ StartWrite(r.val)
               /\ UNCHANGED <<st, err, socket, avail, written>>
          ELSE /\ Fail(r.err)
               /\ written' = written \o <<VER, 1, RSV>>
               /\ UNCHANGED <<wbuf, wpos>>
    /\ UNCHANGED <<dst, aux, bound, need, got, nread, bufs>>

\* the closure of socks.rs:93-148 builds the request and starts its write_all;
\* le is the byte order of the target the program was built for
SendRequest(le) ==
    /\ st = "SendingRequest"
    /\ io = "run"
    /\ LET r == EncodeRequest(dst, le)
       IN IF r.ok
          THEN /\ StartWrite(r.val)
               /\ UNCHANGED <<st, err, socket, avail>>
          ELSE /\ Fail(r.err)
               /\ UNCHANGED <<wbuf, wpos>>
    /\ UNCHANGED <<dst, aux, bound, written, need, got, nread, bufs>>

\* write_all of the request; when it is through, socks.rs:153-155 starts the
\* read_exact of the 4-byte reply header
RequestWrite(k) ==
    /\ st = "SendingRequest"
    /\ WriteBytes(k)
    /\ IF wpos' = Len(wbuf)
       THEN /\ st' = "ReadingReplyHeader"
            /\ StartRead(4)
       ELSE UNCHANGED <<st, io, need, got>>
    /\ UNCHANGED <<dst, aux, bound, socket, wbuf, nread, avail, bufs, err>>

\* The header read byte by byte, the version judged as soon as it is in.
HeaderRead_eager(b) ==
    /\ st = "ReadingReplyHeader"
    /\ ReadByte
    /\ response' = Append(response, b)
    /\ IF response = <<>> /\ b # VER
       THEN /\ st' = "Failed"
            /\ io' = "done"
            /\ err' = unsupported_version(b)
            /\ socket' = "dropped"
       ELSE /\ io' = IF got' = need THEN "run" ELSE io
            /\ UNCHANGED <<st, err, socket>>
    /\ UNCHANGED <<dst, aux, bound, wbuf, wpos, written, need,
                   method_resp, version, method, atyp, addr, len>>

\* read_exact of the reply header (socks.rs:154)
HeaderRead(b) ==
    /\ st = "ReadingReplyHeader"
    /\ ReadByte
    /\ response' = Append(response, b)
    /\ io' = IF got' = need THEN "run" ELSE io
    /\ UNCHANGED <<st, dst, aux, bound, socket, wbuf, wpos, written, need,
                   method_resp, version, method, atyp, addr, len, err>>

\* The checks with the reserved byte looked at before the reply code.
HeaderCheck_rsvFirst(resp) ==
    IF resp[1] # VER THEN Err(unsupported_version(resp[1]))
    ELSE IF resp[3] # RSV THEN Err(invalid_reserved(resp[3]))
    ELSE IF Socks5Reply_from(resp[2]) # Succeeded
         THEN Err(reply_error(Socks5Reply_from(resp[2])))
    ELSE Ok(resp[4])

\* The checks without the one of the reserved byte.
HeaderCheck_noRsv(resp) ==
    IF resp[1] # VER THEN Err(unsupported_version(resp[1]))
    ELSE IF Socks5Reply_from(resp[2]) # Succeeded
         THEN Err(reply_error(Socks5Reply_from(resp[2])))
    ELSE Ok(resp[4])

\* the closure of socks.rs:157-174: version, reply code, reserved byte
HeaderCheck(resp) ==
    IF resp[1] # VER THEN Err(unsupported_version(resp[1]))
    ELSE IF Socks5Reply_from(resp[2]) # Succeeded
         THEN Err(reply_error(Socks5Reply_from(resp[2])))
    ELSE IF resp[3] # RSV THEN Err(invalid_reserved(resp[3]))
    ELSE Ok(resp[4])

ValidateHeader ==
    /\ st = "ReadingReplyHeader"
    /\ io = "run"
    /\ LET r == HeaderCheck(response)
       IN IF r.ok
          THEN /\ atyp' = r.val
               /\ st' = "ReadingBoundAddress"
               /\ UNCHANGED <<io, err, socket, avail>>
          ELSE /\ Fail(r.err)
               /\ UNCHANGED atyp
    /\ UNCHANGED <<dst, aux, bound, wbuf, wpos, written, need, got, nread,
                   method_resp, version, method, response, addr, len>>

\* The match with the IPv6 arm reading an IPv4-sized buffer.
AddressPlan_shortV6(t) ==
    IF t = 1 THEN Ok([addr |-> "fixed", size |-> 4])
    ELSE IF t = 3 THEN Ok([addr |-> "len", size |-> 1])
    ELSE IF t = 4 THEN Ok([addr |-> "fixed", size |-> 4])
    ELSE Err(invalid_address_type(t))

\* the match of socks.rs:177-212: which read the address type asks for
AddressPlan(t) ==
    IF t = 1 THEN Ok([addr |-> "fixed", size |-> 4])
    ELSE IF t = 3 THEN Ok([addr |-> "len", size |-> 1])
    ELSE IF t = 4 THEN Ok([addr |-> "fixed", size |-> 16])
    ELSE Err(invalid_address_type(t))

\* the closure of socks.rs:176-214 starts the bound-address read
SelectAddress ==
    /\ st = "ReadingBoundAddress"
    /\ io = "run"
    /\ addr = ""
    /\ LET r == AddressPlan(atyp)
       IN IF r.ok
          THEN /\ addr' = r.val.addr
               /\ StartRead(r.val.size)
               /\ UNCHANGED <<st, err, socket, avail>>
          ELSE /\ Fail(r.err)
               /\ UNCHANGED <<addr, need, got>>
    /\ UNCHANGED <<dst, aux, bound, wbuf, wpos, written, nread, method_resp, version, method, response, atyp, len>>

\* socks.rs:191: the buffer of the domain body, vec![0x00; len[0] as usize]
BodySize(lenbuf) == lenbuf[1]

\* read_exact of the length byte (socks.rs:189)
LengthRead(b) ==
    /\ st = "ReadingBoundAddress"
    /\ addr = "len"
    /\ ReadByte
    /\ len' = Append(len, b)
    /\ io' = IF got' = need THEN "run" ELSE io
    /\ UNCHANGED <<st, dst, aux, bound, socket, wbuf, wpos, written, need,
                   method_resp, version, method, response, atyp, addr, err>>

\* the closure of socks.rs:190-192 starts the read of the domain body
StartBody ==
    /\ st = "ReadingBoundAddress"
    /\ addr = "len"
    /\ io = "run"
    /\ addr' = "body"
    /\ StartRead(BodySize(len))
    /\ UNCHANGED <<st, dst, aux, bound, socket, wbuf, wpos, written, nread,
                   avail, method_resp, version, method, response, atyp, len,
                   err>>

\* read_exact of an address body (socks.rs:181, 191, 200); the code drops the
\* buffer unread, bound records what it held
AddressRead(b) ==
    /\ st = "ReadingBoundAddress"
    /\ addr \in {"fixed", "body"}
    /\ ReadByte
    /\ bound' = Append(bound, b)
    /\ io' = IF got' = need THEN "run" ELSE io
    /\ UNCHANGED <<st, dst, aux, socket, wbuf, wpos, written, need,
                   bufs, err>>

\* The chain without the read of the port: the address read resolves it.
AddressDone_noPort ==
    /\ st = "ReadingBoundAddress"
    /\ addr \in {"fixed", "body"}
    /\ io = "run"
    /\ st' = "Established"
    /\ io' = "done"
    /\ socket' = "caller"
    /\ UNCHANGED <<dst, aux, bound, wbuf, wpos, written, need, got, nread, avail, bufs, err>>

\* the address is consumed (.map(|(socket, _)| socket)); socks.rs:216 starts
\* the read_exact of the 2 port bytes
AddressDone ==
    /\ st = "ReadingBoundAddress"
    /\ addr \in {"fixed", "body"}
    /\ io = "run"
    /\ st' = "ReadingBoundPort"
    /\ StartRead(2)
    /\ UNCHANGED <<dst, aux, bound, socket, wbuf, wpos, written, nread,
                   avail, bufs, err>>

\* read_exact of the bound port (socks.rs:216), dropped unread as well
PortRead(b) ==
    /\ st = "ReadingBoundPort"
    /\ ReadByte
    /\ bound' = Append(bound, b)
    /\ io' = IF got' = need THEN "run" ELSE io
    /\ UNCHANGED <<st, dst, aux, socket, wbuf, wpos, written, need,
                   bufs, err>>

\* The chain with a look at the bound port: port 0 fails the attempt.
Finish_portChecked ==
    /\ st = "ReadingBoundPort"
    /\ io = "run"
    /\ IF bound[Len(bound) - 1] = 0 /\ bound[Len(bound)] = 0
       THEN /\ Fail(other("InvalidBoundPort", "invalid bound port: 0"))
       ELSE /\ st' = "Established"
            /\ io' = "done"
            /\ socket' = "caller"
            /\ UNCHANGED <<avail, err>>
    /\ UNCHANGED <<dst, aux, bound, wbuf, wpos, written, need, got, nread,
                   bufs>>

\* socks.rs:219: the chain resolves to (socket, Connected::new())
Finish ==
    /\ st = "ReadingBoundPort"
    /\ io = "run"
    /\ st' = "Established"
    /\ io' = "done"
    /\ socket' = "caller"
    /\ UNCHANGED <<dst, aux, bound, wbuf, wpos, written, need, got, nread,
                   avail, bufs, err>>

\* A transport error answered by connecting again.
IoError_retry ==
    /\ io \in {"connect", "write", "read"}
    /\ st' = "Connecting"
    /\ io' = "connect"
    /\ socket' = "none"
    /\ avail' = 0
    /\ UNCHANGED <<dst, aux, bound, wbuf, wpos, written, need, got, nread, bufs, err>>

\* TcpStream::connect, write_all or read_exact resolves to an io::Error
IoError ==
    /\ io \in {"connect", "write", "read"}
    /\ Fail(TransportError)
    /\ UNCHANGED <<dst, aux, bound, wbuf, wpos, written, need, got, nread,
                   bufs>>

\* One TcpStream for both calls: a byte of the proxy shows up in both.
ServerSend_shared ==
    /\ socket = "handshake"
    /\ avail < MaxInFlight
    /\ avail' = avail + 1
    /\ parked' = IF parked # <<>> /\ parked.socket = "handshake"
                 THEN [parked EXCEPT !.avail = avail + 1]
                 ELSE parked
    /\ UNCHANGED <<st, io, dst, conv, bound, socket, wbuf, wpos, written,
                   need, got, nread, bufs, err>>

\* the proxy puts one more byte on the wire, asked for or not
ServerSend ==
    /\ socket = "handshake"
    /\ avail < MaxInFlight
    /\ avail' = avail + 1
    /\ UNCHANGED <<st, io, dst, aux, bound, socket, wbuf, wpos, written,
                   need, got, nread, bufs, err>>

\* One step of an attempt whose destination is drawn from dests, whose
\* negotiation and header bytes from bytes, whose domain length byte from
\* lens, and whose bound address and port bytes from body.
Handshake(dests, bytes, lens, body) ==
    \/ \E d \in dests : Connect(d)
    \/ ConnectDone
    \/ \E k \in 1..3 : MethodWrite(k)
    \/ \E b \in bytes : MethodRead(b)
    \/ EvaluateMethod
    \/ \E le \in BOOLEAN : SendRequest(le)
    \/ \E k \in 1..Len(wbuf) : RequestWrite(k)
    \/ \E b \in bytes : HeaderRead(b)
    \/ ValidateHeader
    \/ SelectAddress
    \/ \E b \in lens : LengthRead(b)
    \/ StartBody
    \/ \E b \in body : AddressRead(b)
    \/ AddressDone
    \/ \E b \in body : PortRead(b)
    \/ Finish
    \/ IoError
    \/ ServerSend

Next == Handshake(Destinations, ByteSample, ByteSample, BoundSample)

Spec == Init /\ [][Next]_vars

(***************************************************************************)
(* The code tables on their own: method.rs and reply.rs applied to every   *)
(* byte a u8 holds and to every value the two enums admit.  conv.b holds   *)
(* the bytes and conv.v the values of one conversion chain, oldest first.  *)
(***************************************************************************)
Bytes == 0..255

\* every value of enum Socks5Method (method.rs:5-18): the payloads are u8
MethodValues ==
    {NoAuthRequired, Gssapi, UsernamePassword, NoAcceptable}
        \cup {IanaAssigned(c) : c \in Bytes} \cup {Private(c) : c \in Bytes}

\* every value of enum Socks5Reply (reply.rs:4-25)
ReplyValues ==
    {[tag |-> ReplyNames[i]] : i \in 1..9} \cup {Unassigned(c) : c \in Bytes}

ConvOf(fn, dir, b, v) == [fn |-> fn, dir |-> dir, b |-> b, v |-> v, text |-> ""]

ConvInputs ==
    {ConvOf(fn, "byte", <<b>>, <<>>) : fn \in {"method", "reply"}, b \in Bytes}
        \cup {ConvOf("method", "value", <<>>, <<m>>) : m \in MethodValues}
        \cup {ConvOf("reply", "value", <<>>, <<r>>) : r \in ReplyValues}

InitTables ==
    /\ Fresh
    /\ parked = NoOther
    /\ conv \in ConvInputs

\* the chain's newest item is a byte (else it is a value)
LastIsByte ==
    \/ conv.dir = "byte" /\ Len(conv.b) > Len(conv.v)
    \/ conv.dir = "value" /\ Len(conv.b) = Len(conv.v)

\* a chain ends after one round trip
ChainOpen == Len(conv.b) + Len(conv.v) < 3

\* Socks5Method::from(byte)
MethodFromByte ==
    /\ conv.fn = "method" /\ ChainOpen /\ LastIsByte
    /\ conv' = [conv EXCEPT
           !.v = Append(@, Socks5Method_from(conv.b[Len(conv.b)]))]
    /\ UNCHANGED <<attempt, parked>>

\* let byte: u8 = method.into()
MethodIntoByte ==
    /\ conv.fn = "method" /\ ChainOpen /\ ~LastIsByte
    /\ conv' = [conv EXCEPT
           !.b = Append(@, Socks5Method_into(conv.v[Len(conv.v)]))]
    /\ UNCHANGED <<attempt, parked>>

\* Socks5Reply::from(byte)
ReplyFromByte ==
    /\ conv.fn = "reply" /\ ChainOpen /\ LastIsByte
    /\ conv' = [conv EXCEPT
           !.v = Append(@, Socks5Reply_from(conv.b[Len(conv.b)]))]
    /\ UNCHANGED <<attempt, parked>>

\* let byte: u8 = reply.into()
ReplyIntoByte ==
    /\ conv.fn = "reply" /\ ChainOpen /\ ~LastIsByte
    /\ conv' = [conv EXCEPT
           !.b = Append(@, Socks5Reply_into(conv.v[Len(conv.v)]))]
    /\ UNCHANGED <<attempt, parked>>

\* error::reply_error(reply) of the chain's first value, as socks.rs:167
\* builds it for a reply other than Succeeded; text is the error's message
ReplyDisplay ==
    /\ conv.fn = "reply"
    /\ conv.text = ""
    /\ Len(conv.v) >= 1
    /\ conv.v[1] # Succeeded
    /\ conv' = [conv EXCEPT !.text = reply_error(conv.v[1]).msg]
    /\ UNCHANGED <<attempt, parked>>

NextTables ==
    \/ MethodFromByte
    \/ MethodIntoByte
    \/ ReplyFromByte
    \/ ReplyIntoByte
    \/ ReplyDisplay

SpecTables == InitTables /\ [][NextTables]_vars

(***************************************************************************)
(* Two calls of connect on one Socks5hProxy.  Each call builds its own     *)
(* chain over its own TcpStream (socks.rs:77); &self.addr is all they      *)
(* share.  The attempt variables are the attempt that takes the next step, *)
(* parked is the other one.                                                *)
(***************************************************************************)
Snapshot ==
    [st |-> st, io |-> io, dst |-> dst, socket |-> socket, wbuf |-> wbuf,
     wpos |-> wpos, written |-> written, need |-> need, got |-> got,
     nread |-> nread, avail |-> avail, method_resp |-> method_resp,
     version |-> version, method |-> method, response |-> response,
     atyp |-> atyp, addr |-> addr, len |-> len, bound |-> bound, err |-> err]

\* the state of a call of connect that has not taken a step
FreshAttempt ==
    [st |-> "NotStarted", io |-> "done", dst |-> NoDestination,
     socket |-> "none", wbuf |-> <<>>, wpos |-> 0, written |-> <<>>,
     need |-> 0, got |-> 0, nread |-> 0, avail |-> 0, method_resp |-> <<>>,
     version |-> 0, method |-> NoAuthRequired, response |-> <<>>, atyp |-> 0,
     addr |-> "", len |-> <<>>, bound |-> <<>>, err |-> NoError]

InitPair ==
    /\ Fresh
    /\ parked = FreshAttempt
    /\ conv = NoConv

Terminal(a) == a.st \in {"Established", "Failed"}

\* the executor polls the other future: the two attempts change places
Switch ==
    /\ parked # NoOther
    /\ parked' = Snapshot
    /\ st' = parked.st
    /\ io' = parked.io
    /\ dst' = parked.dst
    /\ socket' = parked.socket
    /\ wbuf' = parked.wbuf
    /\ wpos' = parked.wpos
    /\ written' = parked.written
    /\ need' = parked.need
    /\ got' = parked.got
    /\ nread' = parked.nread
    /\ avail' = parked.avail
    /\ method_resp' = parked.method_resp
    /\ version' = parked.version
    /\ method' = parked.method
    /\ response' = parked.response
    /\ atyp' = parked.atyp
    /\ addr' = parked.addr
    /\ len' = parked.len
    /\ bound' = parked.bound
    /\ err' = parked.err
    /\ UNCHANGED conv

\* the second call starts when the first has resolved
Handover ==
    /\ Terminal(Snapshot)
    /\ parked = FreshAttempt
    /\ Switch

\* Two calls one after the other, each with a proxy of its own choosing.
PairDests == {[host |-> HostName, port |-> <<8080>>, scheme |-> "http"],
              [host |-> <<>>, port |-> <<8080>>, scheme |-> "http"]}
PairBytes == {0, 3, 5}
PairLens == {0, 2}
PairBody == {0, 1}

NextPair ==
    \/ Handshake(PairDests, PairBytes, PairLens, PairBody)
    \/ Handover

SpecPair == InitPair /\ [][NextPair]_vars

\* Two calls whose steps interleave in any order.
ConcDests == {[host |-> HostName, port |-> <<8080>>, scheme |-> "http"]}
ConcBytes == {0, 3, 5}
ConcLens == {0, 1}

NextConc ==
    \/ Handshake(ConcDests, ConcBytes, ConcLens, BoundSample)
    \/ Switch

SpecConc == InitPair /\ [][NextConc]_vars

(***************************************************************************)
(* One attempt on a channel that cooperates: the executor polls a future   *)
(* that can make a step (tokio wakes the task when its connect, write or   *)
(* read is ready), and the proxy sends the next byte.  No fairness for     *)
(* Connect, the caller's choice, nor for IoError.                          *)
(***************************************************************************)
Connects == ConnectDone

Writes ==
    \/ \E k \in 1..3 : MethodWrite(k)
    \/ \E k \in 1..Len(wbuf) : RequestWrite(k)

Reads(bytes, lens, body) ==
    \/ \E b \in bytes : MethodRead(b)
    \/ \E b \in bytes : HeaderRead(b)
    \/ \E b \in lens : LengthRead(b)
    \/ \E b \in body : AddressRead(b)
    \/ \E b \in body : PortRead(b)

Closures ==
    \/ EvaluateMethod
    \/ \E le \in BOOLEAN : SendRequest(le)
    \/ ValidateHeader
    \/ SelectAddress
    \/ StartBody
    \/ AddressDone
    \/ Finish

LiveDests == {[host |-> HostName, port |-> <<8080>>, scheme |-> "http"],
              [host |-> HostV4, port |-> <<>>, scheme |-> "https"],
              [host |-> HostName, port |-> <<>>, scheme |-> "ftp"],
              [host |-> <<>>, port |-> <<8080>>, scheme |-> "http"]}
LiveBytes == {0, 1, 3, 4, 5}
LiveLens == {0, 2}

NextLive == Handshake(LiveDests, LiveBytes, LiveLens, BoundSample)

SpecLive ==
    /\ Init
    /\ [][NextLive]_vars
    /\ WF_vars(Connects)
    /\ WF_vars(Writes)
    /\ WF_vars(ServerSend)
    /\ WF_vars(Reads(LiveBytes, LiveLens, BoundSample))
    /\ WF_vars(Closures)

(***************************************************************************)
(* Properties.                                                             *)
(***************************************************************************)
Greeting == <<5, 1, 0>>
StateOrder == <<"NotStarted", "Connecting", "NegotiatingMethod",
                "EvaluatingMethod", "SendingRequest", "ReadingReplyHeader",
                "ReadingBoundAddress", "ReadingBoundPort", "Established">>
Rank(s) == IF s = "Failed" THEN 10
           ELSE CHOOSE i \in 1..9 : StateOrder[i] = s

\* The method a response byte stands for, by the table of the data model.
MethodOfByte(m) ==
    IF m = 0 THEN [tag |-> "NoAuthRequired"]
    ELSE IF m = 1 THEN [tag |-> "Gssapi"]
    ELSE IF m = 2 THEN [tag |-> "UsernamePassword"]
    ELSE IF m = 255 THEN [tag |-> "NoAcceptable"]
    ELSE IF m <= 127 THEN [tag |-> "IanaAssigned", code |-> m]
    ELSE [tag |-> "Private", code |-> m]

\* C1: the step that leaves EvaluatingMethod is decided by the two response
\* bytes alone: [5, 0x00] goes on to SendingRequest, [5, 0xFF] fails with
\* NoAcceptableMethods, [5, other] fails with UnsupportedMethod(method), and a
\* version other than 5 fails with UnsupportedVersion(version) whatever the
\* method byte is.
C1_MethodEvaluation ==
    [][(st = "EvaluatingMethod" /\ st' # st) =>
         LET v == method_resp[1]
             m == method_resp[2]
         IN /\ (v = 5 /\ m = 0) => (st' = "SendingRequest" /\ err' = NoError)
            /\ (v = 5 /\ m = 255) =>
                 (st' = "Failed" /\ err' = no_acceptable_methods)
            /\ (v = 5 /\ m \notin {0, 255}) =>
                 (st' = "Failed" /\ err' = unsupported_method(MethodOfByte(m)))
            /\ v # 5 => (st' = "Failed" /\ err' = unsupported_version(v))]_vars

\* a response of version 4 whose method byte is 0xFF was evaluated
C1_Witness ==
    /\ st = "Failed"
    /\ method_resp = <<4, 255>>
    /\ err.kind = "UnsupportedVersion"

\* the reply header has been read and both closures that look at it have run
HeaderDecided ==
    /\ Len(response) = 4
    /\ st # "ReadingReplyHeader"
    /\ ~(st = "ReadingBoundAddress" /\ addr = "")

\* C2: the header [VER, REP, RSV, ATYP] is judged in that order and the first
\* failing field decides the error, whatever the later fields hold.
C2_HeaderOrder ==
    HeaderDecided =>
        LET ver == response[1]
            rep == response[2]
            rsv == response[3]
            aty == response[4]
        IN /\ ver # 5 => (st = "Failed" /\ err = unsupported_version(ver))
           /\ (ver = 5 /\ rep # 0) =>
                (st = "Failed" /\ err = reply_error(Socks5Reply_from(rep)))
           /\ (ver = 5 /\ rep = 0 /\ rsv # 0) =>
                (st = "Failed" /\ err = invalid_reserved(rsv))
           /\ (ver = 5 /\ rep = 0 /\ rsv = 0 /\ aty \notin {1, 3, 4}) =>
                (st = "Failed" /\ err = invalid_address_type(aty))
           /\ (ver = 5 /\ rep = 0 /\ rsv = 0 /\ aty \in {1, 3, 4}) =>
                err \in {NoError, TransportError}

\* a header whose REP, RSV and ATYP are all invalid failed on REP
C2_Witness ==
    /\ st = "Failed"
    /\ response = <<5, 5, 1, 2>>
    /\ err.kind = "ReplyError"

\* bytes of the bound address that a reply of this header and length buffer
\* carries
BoundAddressSize ==
    IF response[4] = 1 THEN 4
    ELSE IF response[4] = 4 THEN 16
    ELSE 1 + len[1]

\* C3: after a header [5, 0, 0, ATYP] the attempt reads 4 bytes for ATYP 1, 16
\* for ATYP 4, one length byte and then that many bytes for ATYP 3, and then 2
\* port bytes; in Established it has read 2 + 4 + N + 2 bytes and no more.
C3_ExactReads ==
    /\ (st = "ReadingBoundAddress" /\ addr = "fixed") =>
          /\ need = (IF response[4] = 1 THEN 4 ELSE 16)
          /\ response[4] \in {1, 4}
          /\ nread = 6 + got
    /\ (st = "ReadingBoundAddress" /\ addr = "len") =>
          (response[4] = 3 /\ need = 1 /\ nread = 6 + got)
    /\ (st = "ReadingBoundAddress" /\ addr = "body") =>
          (response[4] = 3 /\ need = len[1] /\ nread = 7 + got)
    /\ (st \in {"ReadingBoundAddress", "ReadingBoundPort", "Established"}) =>
          got <= need
    /\ st = "ReadingBoundPort" =>
          (need = 2 /\ nread = 6 + BoundAddressSize + got)
    /\ st = "Established" =>
          (response[4] \in {1, 3, 4} /\ nread = 2 + 4 + BoundAddressSize + 2)

\* the reply of a 5-byte domain name was consumed: 2 + 4 + (1 + 5) + 2 bytes
C3_Witness ==
    /\ st = "Established"
    /\ response = <<5, 0, 0, 3>>
    /\ len = <<5>>
    /\ nread = 14

\* C4: the state only moves one place forward in the design's order or to
\* Failed, and it leaves a state only when that state's bytes are through:
\* the greeting written and the response read, the request written, the
\* header read, the address read, the port read.
C4_StateOrder ==
    [][st' # st =>
         /\ \/ st' = "Failed" /\ st \notin {"NotStarted", "Established"}
            \/ Rank(st') = Rank(st) + 1 /\ st' # "Failed"
         /\ (st = "NegotiatingMethod" /\ st' # "Failed") =>
              (written = Greeting /\ Len(method_resp') = 2 /\ nread' = 2)
         /\ (st = "SendingRequest" /\ st' # "Failed") =>
              (wpos' = Len(wbuf) /\ written' = Greeting \o wbuf /\ nread = 2)
         /\ (st = "ReadingReplyHeader" /\ st' # "Failed") =>
              (Len(response) = 4 /\ nread = 6)
         /\ (st = "ReadingBoundAddress" /\ st' # "Failed") =>
              (addr \in {"fixed", "body"} /\ got = need)
         /\ (st = "ReadingBoundPort" /\ st' # "Failed") =>
              (got = 2 /\ need = 2)]_vars

\* an attempt went through every state with an IPv6 bound address
C4_Witness ==
    /\ st = "Established"
    /\ written = Greeting \o wbuf
    /\ addr = "fixed"
    /\ nread = 24

\* C5: a failed attempt is over: it writes and reads nothing more, keeps its
\* error, never hands out the socket; and no attempt moves back to an earlier
\* state, so nothing is tried again.
C5_FailureTerminal ==
    [][/\ st = "Failed" =>
            /\ st' = "Failed"
            /\ written' = written
            /\ nread' = nread
            /\ err' = err
            /\ socket' = socket
       /\ Rank(st') >= Rank(st)
       /\ (st' = "Failed" /\ st # "Failed") =>
            (err' # NoError /\ socket' # "caller" /\ io' = "done")]_vars

\* the transport broke in the middle of the reply header
C5_Witness ==
    /\ st = "Failed"
    /\ err = TransportError
    /\ Len(response) = 2
    /\ socket = "dropped"

\* every condition of a successful handshake holds of what was exchanged
AllExchanged ==
    /\ method_resp = <<5, 0>>
    /\ Len(wbuf) > 3
    /\ wpos = Len(wbuf)
    /\ written = Greeting \o wbuf
    /\ Len(response) = 4
    /\ response[1] = 5
    /\ response[2] = 0
    /\ response[3] = 0
    /\ response[4] \in {1, 3, 4}
    /\ response[4] = 3 => Len(len) = 1
    /\ nread = 2 + 4 + BoundAddressSize + 2

\* C6: the caller holds the socket exactly in Established; Established is
\* reached only after the response [5, 0], the request written in full, a
\* header [5, 0, 0, ATYP in {1, 3, 4}] and the address and port read in full,
\* and an exchange that got that far ends nowhere else; a failed attempt
\* gives an error and no socket.
C6_SocketOnlyOnSuccess ==
    /\ socket = "caller" <=> st = "Established"
    /\ st = "Established" => (AllExchanged /\ err = NoError /\ io = "done")
    /\ AllExchanged =>
         \/ st = "Established"
         \/ st = "ReadingBoundPort" /\ io = "run" /\ got = need
    /\ st = "Failed" => (err # NoError /\ socket \in {"none", "dropped"})

\* the socket was handed out after a reply with an IPv6 bound address
C6_Witness ==
    /\ st = "Established"
    /\ socket = "caller"
    /\ response = <<5, 0, 0, 4>>
    /\ dst.host = HostName

\* C7: the negotiator writes exactly [5, 1, 0], starts reading only when the
\* three bytes are written, reads exactly 2 bytes and hands on (first byte,
\* method of the second byte) for every pair of bytes, rejecting none.
C7_MethodNegotiator ==
    /\ [](st = "NegotiatingMethod" =>
            /\ wbuf = Greeting
            /\ written = SubSeq(Greeting, 1, wpos)
            /\ nread = Len(method_resp)
            /\ Len(method_resp) < 2
            /\ (io = "read" \/ nread > 0) => written = Greeting
            /\ io = "read" => (need = 2 /\ got = nread))
    /\ [](st = "EvaluatingMethod" =>
            /\ written = Greeting
            /\ nread = 2
            /\ Len(method_resp) = 2
            /\ version = method_resp[1]
            /\ method = MethodOfByte(method_resp[2])
            /\ err = NoError)
    /\ [][(st = "NegotiatingMethod" /\ Len(method_resp) = 1
              /\ method_resp' # method_resp) =>
            (st' = "EvaluatingMethod" /\ Len(method_resp') = 2)]_vars

\* a response of version 3 and an IANA method was handed on, not rejected
C7_Witness ==
    /\ st = "EvaluatingMethod"
    /\ method_resp = <<3, 4>>
    /\ method = [tag |-> "IanaAssigned", code |-> 4]

\* the hosts of the model that are no IP literal
NonIpHosts == {HostNotV4, HostName, <<>>, HostOfLen(255), HostOfLen(256)}

\* the request was built: the write buffer holds it (the greeting has 3 bytes)
RequestBuilt == Len(wbuf) > 3

\* the negotiation response was accepted and the attempt failed without a
\* request: the encoder returned early
EncodingFailed == st = "Failed" /\ method_resp = <<5, 0>> /\ ~RequestBuilt

\* C8: for a host that is no IP literal, of byte length L: with 1 <= L <= 255
\* the request carries address type 3, the length byte L and the L bytes of
\* the host; with L = 0 or L > 255 no request is built and the attempt fails
\* with InvalidHostLength(L).
C8_HostLength ==
    dst.host \in NonIpHosts =>
        LET L == Len(dst.host)
        IN /\ RequestBuilt =>
                /\ L \in 1..255
                /\ Len(wbuf) = 4 + 1 + L + 2
                /\ wbuf[4] = 3
                /\ wbuf[5] = L
                /\ SubSeq(wbuf, 6, 5 + L) = dst.host
           /\ (L \in 1..255 /\ EncodingFailed) => err.kind # "InvalidHostLength"
           /\ (L \notin 1..255 /\ st \notin {"Failed", "NotStarted"}) =>
                Rank(st) <= Rank("SendingRequest")
           /\ (L \notin 1..255 /\ EncodingFailed) =>
                /\ err.kind = "InvalidHostLength"
                /\ err.msg = "invalid hostname length: " \o FmtDec(L)

\* a host of 256 bytes was refused with its length in the message
C8_Witness ==
    /\ st = "Failed"
    /\ dst.host = HostOfLen(256)
    /\ err.msg = "invalid hostname length: 256"

\* C9: an IPv4 literal is sent as address type 1 and its 4 octets, an IPv6
\* literal as address type 4 and its 16 octets, any other host as a domain
\* (type 3); a request holds one address-type byte and one address body
\* between the 3 fixed bytes and the 2 port bytes.
C9_AddressType ==
    RequestBuilt =>
        /\ SubSeq(wbuf, 1, 3) = <<5, 1, 0>>
        /\ dst.host = HostV4 =>
             (Len(wbuf) = 10 /\ SubSeq(wbuf, 4, 8) = <<1, 10, 0, 0, 1>>)
        /\ dst.host = HostV6 =>
             /\ Len(wbuf) = 22
             /\ SubSeq(wbuf, 4, 20)
                  = <<4, 0, 0, 0, 0, 0, 0, 0, 0, 0, 0, 0, 0, 0, 0, 0, 1>>
        /\ dst.host \notin {HostV4, HostV6} =>
             (wbuf[4] = 3 /\ Len(wbuf) = 7 + Len(dst.host))
        /\ wbuf[4] = 3 => dst.host \in NonIpHosts

\* the request for "::1" went out with address type 4
C9_Witness ==
    /\ st = "ReadingReplyHeader"
    /\ dst.host = HostV6
    /\ wbuf[4] = 4
    /\ written = Greeting \o wbuf

\* the last two bytes of the request
RequestPort == SubSeq(wbuf, Len(wbuf) - 1, Len(wbuf))

\* C10: with an explicit port p the request ends with [p div 256, p mod 256]
\* whatever the scheme; without a port, http gives [0x00, 0x50], https gives
\* [0x01, 0xBB], and any other scheme builds no request and fails with
\* UnsupportedScheme.
C10_PortResolution ==
    /\ (RequestBuilt /\ dst.port # <<>>) =>
          RequestPort = <<dst.port[1] \div 256, dst.port[1] % 256>>
    /\ (RequestBuilt /\ dst.port = <<>>) =>
          /\ dst.scheme \in {"http", "https"}
          /\ dst.scheme = "http" => RequestPort = <<0, 80>>
          /\ dst.scheme = "https" => RequestPort = <<1, 187>>
    /\ (EncodingFailed /\ dst.port # <<>>) => err.kind # "UnsupportedScheme"
    /\ (EncodingFailed /\ dst.scheme \in {"http", "https"}) =>
          err.kind # "UnsupportedScheme"
    /\ (EncodingFailed /\ dst.port = <<>> /\ dst.scheme \notin {"http", "https"}
          /\ dst.host \notin {<<>>, HostOfLen(256)}) =>
          /\ err.kind = "UnsupportedScheme"
          /\ err.msg = "unable to determine port for scheme: " \o dst.scheme

\* a request to port 8080 under the scheme ftp went out with [0x1F, 0x90]
C10_Witness ==
    /\ st = "ReadingReplyHeader"
    /\ dst.port = <<8080>>
    /\ dst.scheme = "ftp"
    /\ RequestPort = <<31, 144>>


(***************************************************************************)
(* C11: the method code table is a round trip over the full domain: every  *)
(* byte converted to a Socks5Method and back is the same byte, and every   *)
(* Socks5Method value (IanaAssigned(c) and Private(c) for every byte c     *)
(* included) converted to a byte and back is the same value.               *)
(***************************************************************************)
C11_MethodRoundTrip ==
    (conv.fn = "method" /\ ~ChainOpen) =>
        /\ conv.dir = "byte" => conv.b[2] = conv.b[1]
        /\ conv.dir = "value" => conv.v[2] = conv.v[1]

(***************************************************************************)
(* C12: the reply code table is a round trip over the full domain: every   *)
(* byte converted to a Socks5Reply and back is the same byte, 0x00..0x08   *)
(* give the nine named codes and 0x09..0xFF give Unassigned(b); and every  *)
(* Socks5Reply value (Unassigned(c) for every byte c included) converted   *)
(* to a byte and back is the same value.                                   *)
(***************************************************************************)
C12_ReplyRoundTrip ==
    (conv.fn = "reply" /\ ~ChainOpen) =>
        /\ conv.dir = "byte" =>
              /\ conv.b[2] = conv.b[1]
              /\ conv.b[1] \in 0..8 => conv.v[1] = [tag |-> ReplyNames[conv.b[1] + 1]]
              /\ conv.b[1] \in 9..255 => conv.v[1] = Unassigned(conv.b[1])
        /\ conv.dir = "value" => conv.v[2] = conv.v[1]

(***************************************************************************)
(* C13: every domain-name length byte is in 1..255, the one the encoder    *)
(* sends in the request as well as the one read from a reply of address    *)
(* type 0x03; so no attempt is Established after reading a bound-address   *)
(* length byte of 0.                                                       *)
(***************************************************************************)
C13_LengthByte ==
    /\ (RequestBuilt /\ wbuf[4] = 3) => wbuf[5] \in 1..255
    /\ (st = "Established" /\ Len(len) = 1) => len[1] \in 1..255

(***************************************************************************)
(* C14: the bound address and port are consumed, not surfaced.  Two        *)
(* attempts with the same destination whose proxies sent the same          *)
(* negotiation response, reply header and length byte, and whose channels  *)
(* did not fail, end with the same outcome for the caller, whatever the    *)
(* bound address and port bytes were: both Established with the channel,   *)
(* or both Failed with the same error.                                     *)
(***************************************************************************)
C14_SameStream ==
    /\ Terminal(Snapshot) /\ Terminal(parked)
    /\ dst = parked.dst
    /\ method_resp = parked.method_resp
    /\ response = parked.response
    /\ len = parked.len
    /\ err # TransportError /\ parked.err # TransportError

C14_BoundNotSurfaced ==
    C14_SameStream =>
        /\ st = parked.st
        /\ socket = parked.socket
        /\ err = parked.err

C14_Witness ==
    /\ C14_SameStream
    /\ st = "Established" /\ parked.st = "Established"
    /\ response = <<5, 0, 0, 3>> /\ len = <<2>>
    /\ bound = <<0, 0, 0, 0>> /\ parked.bound = <<1, 1, 1, 1>>

(***************************************************************************)
(* C15: concurrent attempts are independent.  A step of one attempt leaves *)
(* the other attempt's state, channel included, as it was; and what an     *)
(* attempt has written, how much it has read and how it ends are what its  *)
(* own destination and its own channel's bytes give when it runs alone.    *)
(***************************************************************************)
\* what attempt a ends with when it runs alone and its transport holds
AloneOutcome(a) ==
    LET m == MethodCheck(a.method_resp[1], Socks5Method_from(a.method_resp[2]))
        q == EncodeRequest(a.dst, TRUE)
        h == HeaderCheck(a.response)
        p == AddressPlan(a.response[4])
        size == IF p.val.addr = "fixed" THEN p.val.size ELSE 1 + a.len[1]
        end(s, e, w, n) == [st |-> s, err |-> e, written |-> w, nread |-> n]
    IN IF ~m.ok THEN end("Failed", m.err, Greeting, 2)
       ELSE IF ~q.ok THEN end("Failed", q.err, Greeting, 2)
       ELSE IF ~h.ok THEN end("Failed", h.err, Greeting \o q.val, 6)
       ELSE IF ~p.ok THEN end("Failed", p.err, Greeting \o q.val, 6)
       ELSE end("Established", NoError, Greeting \o q.val, 6 + size + 2)

C15_AsAlone(a) ==
    /\ Len(a.written) <= Len(a.wbuf) + (IF a.wbuf = Greeting THEN 0 ELSE 3)
    /\ a.written = SubSeq(Greeting \o a.wbuf, 1, Len(a.written))
          \/ a.written = SubSeq(a.wbuf, 1, Len(a.written))
    /\ (Terminal(a) /\ a.err # TransportError) =>
          LET o == AloneOutcome(a)
          IN /\ a.st = o.st
             /\ a.err = o.err
             /\ a.written = o.written
             /\ a.nread = o.nread
             /\ a.socket = (IF o.st = "Established" THEN "caller" ELSE "dropped")

C15_Frame ==
    \/ parked' = parked
    \/ parked' = Snapshot /\ Snapshot' = parked

C15_Independent ==
    /\ [][C15_Frame]_vars
    /\ [](C15_AsAlone(Snapshot) /\ C15_AsAlone(parked))

\* both attempts are in the middle of their exchanges
C15_Witness ==
    /\ st = "ReadingReplyHeader" /\ nread = 3 /\ avail = 1
    /\ parked.st = "ReadingBoundPort" /\ parked.nread = 7 /\ parked.avail = 1

(***************************************************************************)
(* C16: the request encoder reads nothing and hands the channel one        *)
(* complete buffer: the write buffer goes from the greeting to the whole   *)
(* request [5, 1, 0, ATYP, address, 2 port bytes] in one step, and what is *)
(* on the channel is a prefix of greeting and request; when the encoding   *)
(* fails (InvalidHostLength, UnsupportedScheme) no byte of a request is    *)
(* written: the 3 greeting bytes are all the channel ever carried.         *)
(***************************************************************************)
WholeRequest(buf) ==
    /\ Len(buf) >= 7
    /\ SubSeq(buf, 1, 3) = <<5, 1, 0>>
    /\ buf[4] \in {1, 3, 4}
    /\ Len(buf) = 4 + 2 + (IF buf[4] = 1 THEN 4
                           ELSE IF buf[4] = 4 THEN 16
                           ELSE 1 + buf[5])

C16_Step ==
    /\ st = "SendingRequest" => nread' = nread
    /\ wbuf' # wbuf =>
          \/ wbuf = <<>> /\ wbuf' = Greeting
          \/ /\ wbuf = Greeting /\ written = Greeting
             /\ st = "SendingRequest" /\ io = "run"
             /\ WholeRequest(wbuf')
             /\ written' = written

IsPrefix(p, s) == Len(p) <= Len(s) /\ p = SubSeq(s, 1, Len(p))

C16_Channel ==
    /\ IsPrefix(written, IF RequestBuilt THEN Greeting \o wbuf ELSE Greeting)
    /\ EncodingFailed =>
          /\ err.kind \in {"InvalidHostLength", "UnsupportedScheme"}
          /\ written = Greeting
          /\ nread = 2

C16_SingleWrite == [][C16_Step]_vars /\ []C16_Channel

C16_Witness ==
    /\ EncodingFailed
    /\ err.kind = "UnsupportedScheme"
    /\ written = Greeting
    /\ wbuf = Greeting

(***************************************************************************)
(* C17: a reply that fails on VER, REP, RSV or ATYP has cost exactly the 2 *)
(* negotiation bytes and the 4 header bytes: the failing step reads        *)
(* nothing, whatever the proxy has already sent, no length, address or     *)
(* port byte is read; and the header is judged only when all 4 bytes are   *)
(* in: a header of 1 to 3 bytes ends in nothing but a transport error.     *)
(***************************************************************************)
HeaderFailed ==
    /\ st = "Failed"
    /\ response # <<>>
    /\ err # TransportError

C17_Consumed ==
    HeaderFailed =>
        /\ Len(response) = 4
        /\ nread = 2 + 4
        /\ len = <<>> /\ bound = <<>>
        /\ err \in {unsupported_version(response[1]),
                    reply_error(Socks5Reply_from(response[2])),
                    invalid_reserved(response[3]),
                    invalid_address_type(response[4])}

C17_Step ==
    /\ (st' = "Failed" /\ st # "Failed") => nread' = nread
    /\ st = "Failed" => (nread' = nread /\ response' = response
                          /\ len' = len /\ bound' = bound)
    /\ (st = "ReadingReplyHeader" /\ Len(response) < 4 /\ st' # st) =>
          (st' = "Failed" /\ err' = TransportError)

C17_StopsAtDecision == [][C17_Step]_vars /\ []C17_Consumed

C17_Witness ==
    /\ HeaderFailed
    /\ response = <<5, 0, 1, 3>>
    /\ err = invalid_reserved(1)
    /\ nread = 6

(***************************************************************************)
(* C18: the message of a ReplyError is the description of the reply code;  *)
(* for a code in 0x09..0xFF it is "Unassigned reply 0xNN", NN being the    *)
(* code in two hexadecimal digits.                                         *)
(***************************************************************************)
TwoHexDigits(code) ==
    HexUpperDigits[(code \div 16) + 1] \o HexUpperDigits[(code % 16) + 1]

C18_ReplyText ==
    (conv.fn = "reply" /\ conv.text # "") =>
        LET r == conv.v[1]
        IN /\ r.tag # "Unassigned" =>
                 conv.text = ReplyTexts[Socks5Reply_into(r) + 1]
           /\ (r.tag = "Unassigned" /\ r.code \in 9..255) =>
                 conv.text = "Unassigned reply 0x" \o TwoHexDigits(r.code)

(***************************************************************************)
(* C19: on a channel that cooperates (the connect completes, writes        *)
(* complete, the proxy delivers the byte a read waits for, or the channel  *)
(* fails) a started attempt ends Established or Failed.  There is no       *)
(* timeout: while a read waits and the proxy has sent nothing, the attempt *)
(* stays in its reading state; only a failure of the channel ends it.      *)
(***************************************************************************)
C19_Waiting == io = "read" /\ avail = 0

C19_NoTimeout ==
    C19_Waiting =>
        \/ st' = st /\ io' = io /\ got' = got /\ nread' = nread
        \/ st' = "Failed" /\ err' = TransportError

C19_Terminates ==
    /\ (st # "NotStarted") ~> (st \in {"Established", "Failed"})
    /\ [][C19_NoTimeout]_vars

\* the attempt waits for the second byte of the bound port
C19_Witness ==
    /\ C19_Waiting
    /\ st = "ReadingBoundPort"
    /\ got = 1

(***************************************************************************)
(* C20: of the two encoding failures the host's comes first: a destination *)
(* whose host is no IP literal and has 0 or more than 255 bytes fails with *)
(* InvalidHostLength also when it has no port and a scheme other than http *)
(* and https; UnsupportedScheme is reported only for a host that encodes;  *)
(* and both are reported only after the response [5, 0] was accepted, with *)
(* the 3 greeting bytes written and 2 bytes read.                          *)
(***************************************************************************)
BadHost(h) == ~IpAddr_from_str(h).ok /\ (Len(h) = 0 \/ Len(h) > 255)

NoPortForScheme(d) == d.port = <<>> /\ d.scheme \notin {"http", "https"}

C20_Precedence ==
    /\ (EncodingFailed /\ BadHost(dst.host)) =>
          err = invalid_host_length(Len(dst.host))
    /\ (st = "Failed" /\ err.kind = "UnsupportedScheme") =>
          (~BadHost(dst.host) /\ NoPortForScheme(dst))
    /\ (st = "Failed" /\ err.kind \in {"InvalidHostLength", "UnsupportedScheme"}) =>
          /\ method_resp = <<5, 0>>
          /\ written = Greeting
          /\ nread = 2
          /\ wbuf = Greeting

\* both failures apply: empty host, no port, scheme ftp
C20_Witness ==
    /\ st = "Failed"
    /\ dst.host = <<>> /\ NoPortForScheme(dst)
    /\ err = invalid_host_length(0)
    /\ nread = 2

=============================================================================
